---- MODULE Spec2Model ----
(***************************************************************************)
(* Model of src/routes/day7.rs: the /7/decode and /7/bake handlers, the    *)
(* cookie decoder get_recipe_from_header, the schema step                  *)
(* split_recipe_from_pantry and the allocator calculate_cookies.           *)
(*                                                                         *)
(* One request is followed from its arrival to the response.  The request  *)
(* (endpoint and cookie) is drawn in Init; every later step is a           *)
(* statement (or a group of statements) of the handlers.                   *)
(***************************************************************************)
EXTENDS Integers, Sequences, FiniteSets, TLC

VARIABLES endpoint, request, pc, cur, hdr, bakery, result, response,
          calc_calls, trace

vars == <<endpoint, request, pc, cur, hdr, bakery, result, response,
          calc_calls, trace>>

-----------------------------------------------------------------------------
(* Bounds.  MaxU64 stands for u64::MAX: quantities are kept in 0..MaxU64   *)
(* and arithmetic on them overflows beyond it.                             *)
MaxU64 == 5

Ingredients == {"flour", "sugar"}

-----------------------------------------------------------------------------
(* JSON values (serde_json::Value) that can stand as an entry of recipe or *)
(* pantry.  An integer literal may be negative or exceed u64::MAX.         *)
JInt(k) == [t |-> "int", n |-> k]
JOther(kind) == [t |-> kind, n |-> 0]

JsonEntryValues ==
    {JInt(k) : k \in -1 .. MaxU64 + 1}
        \cup {JOther(kind) : kind \in {"float", "string", "bool", "null", "array", "object"}}

(* A JSON object whose keys are ingredient names. *)
JsonMaps == UNION {[S -> JsonEntryValues] : S \in SUBSET Ingredients}

(* The value found under a key of the document: absent, present but not an *)
(* object, or an object.                                                   *)
EmptyMap == [i \in {} |-> 0]
FieldAbsent == [f |-> "absent", m |-> EmptyMap]
FieldNotObject == [f |-> "notobject", m |-> EmptyMap]
FieldObject(m) == [f |-> "object", m |-> m]

Fields == {FieldAbsent, FieldNotObject} \cup {FieldObject(m) : m \in JsonMaps}

(* Documents: a JSON object with (or without) the two fields, or a JSON    *)
(* value that is no object at all (Value::get on it yields None).          *)
JDoc(shape, r, p) == [shape |-> shape, recipe |-> r, pantry |-> p]
NotAnObjectDoc == JDoc("scalar", FieldAbsent, FieldAbsent)
NoDoc == JDoc("none", FieldAbsent, FieldAbsent)

(* The pantry of a document is drawn from fewer entry values than the      *)
(* recipe: the same coercion (lines 86-90 as lines 71-75) runs on both.    *)
PantryEntryValues ==
    {JInt(k) : k \in 0 .. MaxU64} \cup {JOther("string")}

PantryMaps == UNION {[S -> PantryEntryValues] : S \in SUBSET Ingredients}

PantryFields == {FieldAbsent, FieldNotObject} \cup {FieldObject(m) : m \in PantryMaps}

Documents ==
    {NotAnObjectDoc} \cup {JDoc("object", r, p) : r \in Fields, p \in PantryFields}

-----------------------------------------------------------------------------
(* The cookie jar of the request.  A cookie value is either text that is   *)
(* no Base64, or the Base64 encoding of bytes; the bytes are either no     *)
(* JSON, or the JSON text of a document.                                   *)
Bytes(kind, doc) == [bytes |-> kind, doc |-> doc]
NoBytes == Bytes("none", NoDoc)
CookieValue(enc, payload) == [enc |-> enc, payload |-> payload]
NoValue == CookieValue("none", NoBytes)

CookieValues ==
    {CookieValue("garbage", NoBytes), CookieValue("base64", Bytes("notjson", NoDoc))}
        \cup {CookieValue("base64", Bytes("json", d)) : d \in Documents}

NoCookie == [present |-> FALSE, value |-> NoValue]
Cookie(v) == [present |-> TRUE, value |-> v]

Requests == {NoCookie} \cup {Cookie(v) : v \in CookieValues}

-----------------------------------------------------------------------------
(* Option and Result values.                                               *)
Some(v) == [some |-> TRUE, v |-> v]
None == [some |-> FALSE, v |-> 0]
UnwrapOr(o, d) == IF o.some THEN o.v ELSE d

(* RecipeParseError (lines 180-186) has two variants.  Every `?` of the    *)
(* file follows a .context(..), which yields an anyhow::Error, and the     *)
(* conversion From<anyhow::Error> builds the UnexpectedError variant.      *)
NoError == [variant |-> "none", context |-> ""]
FromAnyhow(context) == [variant |-> "UnexpectedError", context |-> context]
FromDecodeError(context) == [variant |-> "DecodeError", context |-> context]

Ok(v) == [ok |-> TRUE, value |-> v, err |-> NoError]
Err(e) == [ok |-> FALSE, value |-> NoDoc, err |-> e]
NoResult == [ok |-> FALSE, value |-> NoDoc, err |-> NoError]

(* ResponseError::status_code, lines 194-200. *)
status_code(e) ==
    IF e.variant = "DecodeError" THEN 400 ELSE 500

-----------------------------------------------------------------------------
(* The text of a cookie, as Cookie::to_string renders it: the name, an     *)
(* "=" and the value.  The text is a sequence of pieces.                   *)
Piece(ch, value) == [ch |-> ch, value |-> value]
CookieToString(cookie) ==
    <<Piece("recipe", NoValue), Piece("=", NoValue), Piece("value", cookie.value)>>

(* str::split_once("="): the text after the first "=", if there is one. *)
SplitOnce(text) ==
    LET at == {i \in 1 .. Len(text) : text[i].ch = "="}
    IN  IF at = {} THEN None
        ELSE LET first == CHOOSE i \in at : \A j \in at : i <= j
             IN  Some(SubSeq(text, first + 1, Len(text)))

(* general_purpose::STANDARD.decode: the encoded bytes, or a DecodeError. *)
Base64Decode(text) ==
    IF Len(text) = 1 /\ text[1].ch = "value" /\ text[1].value.enc = "base64"
    THEN Some(text[1].value.payload)
    ELSE None

(* serde_json::from_slice::<Value>: the document, or a parse error. *)
FromSlice(bytes) ==
    IF bytes.bytes = "json" THEN Some(bytes.doc) ELSE None

-----------------------------------------------------------------------------
(* Value::get(key): None on a value that is no object or lacks the key.    *)
Get(input, key) ==
    IF input.shape # "object" THEN FieldAbsent
    ELSE IF key = "recipe" THEN input.recipe ELSE input.pantry

(* Value::as_u64: Some(n) for an integer literal in 0..u64::MAX only. *)
as_u64_any_integer(v) ==
    IF v.t = "int" THEN Some(v.n) ELSE None

as_u64(v) ==
    IF v.t = "int" /\ v.n >= 0 /\ v.n <= MaxU64 THEN Some(v.n) ELSE None

(* The two insertion loops of split_recipe_from_pantry, lines 71-75 and    *)
(* 86-90.                                                                  *)
Coerce(m) == [k \in DOMAIN m |-> UnwrapOr(as_u64(m[k]), 0)]

Bakery(recipe, pantry) == [recipe |-> recipe, pantry |-> pantry]
BakeryDefault == Bakery(EmptyMap, EmptyMap)

BakeryOk(b) == [ok |-> TRUE, bakery |-> b, err |-> NoError]
BakeryErr(e) == [ok |-> FALSE, bakery |-> BakeryDefault, err |-> e]

(* split_recipe_from_pantry, lines 58-93. *)
split_recipe_from_pantry(input) ==
    LET recipe == Get(input, "recipe")
        pantry == Get(input, "pantry")
    IN  IF recipe.f = "absent"
        THEN BakeryErr(FromAnyhow("Unable to find recipe in the input"))
        ELSE IF recipe.f # "object"
        THEN BakeryErr(FromAnyhow("Unable to get recipe as object"))
        ELSE IF pantry.f = "absent"
        THEN BakeryErr(FromAnyhow("Unable to find pantry in input"))
        ELSE IF pantry.f # "object"
        THEN BakeryErr(FromAnyhow("Unable to get recipe as object"))
        ELSE BakeryOk(Bakery(Coerce(recipe.m), Coerce(pantry.m)))

-----------------------------------------------------------------------------
(* u64 arithmetic of calculate_cookies.  A build with overflow checks      *)
(* panics on overflow, a build without them wraps modulo 2^64.             *)
Modulus == MaxU64 + 1
Arith(ok, v) == [ok |-> ok, v |-> v]

CheckedMul(a, b, checks) ==
    IF a * b <= MaxU64 THEN Arith(TRUE, a * b)
    ELSE IF checks THEN Arith(FALSE, 0)
    ELSE Arith(TRUE, (a * b) % Modulus)

CheckedSub(a, b, checks) ==
    IF a >= b THEN Arith(TRUE, a - b)
    ELSE IF checks THEN Arith(FALSE, 0)
    ELSE Arith(TRUE, (a - b) % Modulus)

(* BakeReply, lines 95-99; a panic of calculate_cookies leaves no reply. *)
BakeReply(cookies, pantry) == [kind |-> "reply", cookies |-> cookies, pantry |-> pantry]
Panic(why) == [kind |-> why, cookies |-> 0, pantry |-> EmptyMap]
NoReply == [kind |-> "none", cookies |-> 0, pantry |-> EmptyMap]

(* The orders in which HashMap::iter can visit the keys of a map. *)
Orders(m) ==
    {o \in [1 .. Cardinality(DOMAIN m) -> DOMAIN m] :
        \A i, j \in DOMAIN o : i # j => o[i] # o[j]}

(* max_cookies_by_ingredient.iter().min().unwrap_or(&0), line 136. *)
MaxOrZero(counts) ==
    IF Len(counts) = 0 THEN 0
    ELSE CHOOSE c \in {counts[i] : i \in DOMAIN counts} :
            \A j \in DOMAIN counts : c >= counts[j]

MinOrOne(counts) ==
    IF Len(counts) = 0 THEN 1
    ELSE CHOOSE c \in {counts[i] : i \in DOMAIN counts} :
            \A j \in DOMAIN counts : c <= counts[j]

MinOrZero(counts) ==
    IF Len(counts) = 0 THEN 0
    ELSE CHOOSE c \in {counts[i] : i \in DOMAIN counts} :
            \A j \in DOMAIN counts : c <= counts[j]

(* The first loop, lines 106-135, from position k of the iteration order   *)
(* with max_cookies_by_ingredient = counts.  It ends in an early return,   *)
(* in a panic of the division, or with the collected counts.               *)
Continue(counts) == [kind |-> "continue", counts |-> counts, reply |-> NoReply]
Leave(reply) == [kind |-> "leave", counts |-> <<>>, reply |-> reply]

RECURSIVE FeasibilityLoop(_, _, _, _)
FeasibilityLoop(b, order, k, counts) ==
    IF k > Len(order) THEN Continue(counts)
    ELSE LET ingredient == order[k]
             recipe_amount == b.recipe[ingredient]
         IN  IF ingredient \notin DOMAIN b.pantry
             THEN Leave(BakeReply(0, b.pantry))
             ELSE IF recipe_amount > b.pantry[ingredient]
             THEN Leave(BakeReply(0, b.pantry))
             ELSE IF recipe_amount = 0
             THEN Leave(Panic("panic: attempt to divide by zero"))
             ELSE FeasibilityLoop(b, order, k + 1,
                      Append(counts, b.pantry[ingredient] \div recipe_amount))

(* The second loop, lines 138-146: remaining_pantry, or a panic of the     *)
(* index, the multiplication or the subtraction.                           *)
ResidualKeepingPantry(b, cookies_can_be_baked, checks) ==
    BakeReply(cookies_can_be_baked,
        [i \in DOMAIN b.pantry |->
            IF i \in DOMAIN b.recipe
            THEN b.pantry[i] - b.recipe[i] * cookies_can_be_baked
            ELSE b.pantry[i]])

Residual(b, cookies_can_be_baked, checks) ==
    LET product(i) == CheckedMul(b.recipe[i], cookies_can_be_baked, checks)
        rest(i) == CheckedSub(b.pantry[i], product(i).v, checks)
    IN  IF \E i \in DOMAIN b.recipe : i \notin DOMAIN b.pantry
        THEN Panic("panic: key not found")
        ELSE IF \E i \in DOMAIN b.recipe : ~product(i).ok
        THEN Panic("panic: attempt to multiply with overflow")
        ELSE IF \E i \in DOMAIN b.recipe : ~rest(i).ok
        THEN Panic("panic: attempt to subtract with overflow")
        ELSE BakeReply(cookies_can_be_baked, [i \in DOMAIN b.recipe |-> rest(i).v])

(* calculate_cookies, lines 101-152, iterating the recipe in `order`. *)
calculate_cookies(b, order, checks) ==
    LET scan == FeasibilityLoop(b, order, 1, <<>>)
    IN  IF scan.kind = "leave" THEN scan.reply
        ELSE Residual(b, MinOrZero(scan.counts), checks)

-----------------------------------------------------------------------------
(* HTTP responses.                                                         *)
Body(kind, doc, reply) == [kind |-> kind, doc |-> doc, reply |-> reply]
EmptyBody == Body("empty", NoDoc, NoReply)
Response(status, body) == [status |-> status, body |-> body]
NoResponse == Response(0, EmptyBody)

(* HttpResponse::Ok().json(r), lines 14 and 40. *)
OkJsonDocument(r) == Response(200, Body("json_document", r, NoReply))
OkJsonReply(r) == Response(200, Body("json_reply", NoDoc, r))
(* HttpResponse::BadRequest().finish(), lines 24 and 33. *)
BadRequestFinish == Response(400, EmptyBody)
(* ResponseError::error_response: the status of status_code, the error's   *)
(* text as body.                                                           *)
ErrorResponse(e) == Response(status_code(e), Body("error_text", NoDoc, NoReply))

-----------------------------------------------------------------------------
Init ==
    /\ endpoint \in {"decode", "bake"}
    /\ request \in Requests
    /\ pc = "cookie"
    /\ cur = <<>>
    /\ hdr = NoResult
    /\ bakery = BakeryDefault
    /\ result = NoReply
    /\ response = NoResponse
    /\ calc_calls = 0
    /\ trace = <<>>

(* get_recipe_from_header, lines 156-161: request.cookie("recipe") and     *)
(* its rendering as text.                                                  *)
GetCookie ==
    /\ pc = "cookie"
    /\ trace' = Append(trace, "cookie")
    /\ IF request.present
       THEN /\ cur' = CookieToString(request)
            /\ pc' = "split_once"
            /\ hdr' = hdr
       ELSE /\ hdr' = Err(FromAnyhow("No cookie recipe in cookie jar"))
            /\ pc' = "header_done"
            /\ cur' = cur
    /\ UNCHANGED <<endpoint, request, bakery, result, response, calc_calls>>

(* get_recipe_from_header, lines 163-166. *)
SplitCookie ==
    /\ pc = "split_once"
    /\ trace' = Append(trace, "split_once")
    /\ LET parts == SplitOnce(cur)
       IN  IF parts.some
           THEN /\ cur' = parts.v
                /\ pc' = "base64"
                /\ hdr' = hdr
           ELSE /\ hdr' = Err(FromAnyhow("Badly formed recipe cookie"))
                /\ pc' = "header_done"
                /\ cur' = cur
    /\ UNCHANGED <<endpoint, request, bakery, result, response, calc_calls>>

(* get_recipe_from_header, lines 168-171. *)
DecodeBase64 ==
    /\ pc = "base64"
    /\ trace' = Append(trace, "base64")
    /\ LET decoded == Base64Decode(cur)
       IN  IF decoded.some
           THEN /\ cur' = decoded.v
                /\ pc' = "json"
                /\ hdr' = hdr
           ELSE /\ hdr' = Err(FromAnyhow("Unable to base64 decode the cookie."))
                /\ pc' = "header_done"
                /\ cur' = cur
    /\ UNCHANGED <<endpoint, request, bakery, result, response, calc_calls>>

(* get_recipe_from_header, lines 173-177. *)
ParseJson ==
    /\ pc = "json"
    /\ trace' = Append(trace, "json")
    /\ LET parsed == FromSlice(cur)
       IN  IF parsed.some
           THEN hdr' = Ok(parsed.v)
           ELSE hdr' = Err(FromAnyhow("Unable to parse to JSON"))
    /\ pc' = "header_done"
    /\ cur' = <<>>
    /\ UNCHANGED <<endpoint, request, bakery, result, response, calc_calls>>

(* decode, lines 10-15: the result of get_recipe_from_header, given a      *)
(* context (an anyhow::Error again) and returned with `?`.                 *)
decode ==
    /\ pc = "header_done"
    /\ endpoint = "decode"
    /\ IF hdr.ok
       THEN response' = OkJsonDocument(hdr.value)
       ELSE response' = ErrorResponse(FromAnyhow("Error in recipe cookie"))
    /\ pc' = "done"
    /\ UNCHANGED <<endpoint, request, cur, hdr, bakery, result, calc_calls, trace>>

(* bake, lines 20-27. *)
bake_header ==
    /\ pc = "header_done"
    /\ endpoint = "bake"
    /\ IF hdr.ok
       THEN /\ pc' = "split_recipe"
            /\ response' = response
       ELSE /\ response' = BadRequestFinish
            /\ pc' = "done"
    /\ UNCHANGED <<endpoint, request, cur, hdr, bakery, result, calc_calls, trace>>

bake_split_unwrap_or_default ==
    /\ pc = "split_recipe"
    /\ trace' = Append(trace, "schema")
    /\ bakery' = split_recipe_from_pantry(hdr.value).bakery
    /\ pc' = "calculate"
    /\ UNCHANGED <<endpoint, request, cur, hdr, result, response, calc_calls>>

(* bake, lines 29-36. *)
bake_split ==
    /\ pc = "split_recipe"
    /\ trace' = Append(trace, "schema")
    /\ LET b == split_recipe_from_pantry(hdr.value)
       IN  IF b.ok
           THEN /\ bakery' = b.bakery
                /\ pc' = "calculate"
                /\ response' = response
           ELSE /\ response' = BadRequestFinish
                /\ pc' = "done"
                /\ bakery' = bakery
    /\ UNCHANGED <<endpoint, request, cur, hdr, result, calc_calls>>

(* bake, lines 38-39: the call of calculate_cookies.  The iteration order  *)
(* of the recipe's HashMap and the build's overflow checks are not fixed   *)
(* by the source.                                                          *)
bake_calculate ==
    /\ pc = "calculate"
    /\ trace' = Append(trace, "calculate")
    /\ calc_calls' = calc_calls + 1
    /\ \E order \in Orders(bakery.recipe), checks \in BOOLEAN :
          result' = calculate_cookies(bakery, order, checks)
    /\ pc' = IF result'.kind = "reply" THEN "respond" ELSE "panicked"
    /\ UNCHANGED <<endpoint, request, cur, hdr, bakery, response>>

(* bake, line 40. *)
bake_respond ==
    /\ pc = "respond"
    /\ response' = OkJsonReply(result)
    /\ pc' = "done"
    /\ UNCHANGED <<endpoint, request, cur, hdr, bakery, result, calc_calls, trace>>

Next ==
    \/ GetCookie
    \/ SplitCookie
    \/ DecodeBase64
    \/ ParseJson
    \/ decode
    \/ bake_header
    \/ bake_split
    \/ bake_calculate
    \/ bake_respond

Spec == Init /\ [][Next]_vars

-----------------------------------------------------------------------------
(* Vocabulary of the properties.                                           *)

(* calculate_cookies has been called and has ended (in a reply or not). *)
Calculated == calc_calls = 1

(* Every ingredient of the recipe is in the pantry in sufficient quantity. *)
Feasible(b) ==
    \A i \in DOMAIN b.recipe : i \in DOMAIN b.pantry /\ b.pantry[i] >= b.recipe[i]

(* c is the least floor(P[i] / R[i]) over the ingredients that bound the   *)
(* production (requirement above zero), when there is one.                 *)
IsMinRatio(c, b) ==
    LET binding == {i \in DOMAIN b.recipe : b.recipe[i] > 0}
    IN  binding # {} =>
            /\ \E i \in binding : c = b.pantry[i] \div b.recipe[i]
            /\ \A i \in binding : c <= b.pantry[i] \div b.recipe[i]

(* What the request carries, read off the request alone. *)
CarriesDocument(req) ==
    /\ req.present
    /\ req.value.enc = "base64"
    /\ req.value.payload.bytes = "json"

DocumentOf(req) == req.value.payload.doc

SchemaOk(doc) ==
    /\ doc.shape = "object"
    /\ doc.recipe.f = "object"
    /\ doc.pantry.f = "object"

(* split_recipe_from_pantry has run, and how it ended. *)
SplitRan == \E i \in DOMAIN trace : trace[i] = "schema"
SplitFailed == SplitRan /\ pc = "done" /\ calc_calls = 0
SplitSucceeded == SplitRan /\ ~SplitFailed

-----------------------------------------------------------------------------
(* C1: for every feasible recipe and pantry calculate_cookies returns      *)
(* cookies equal to the minimum over the recipe of floor(P[i] / R[i]).     *)
C1_CookiesAreMinRatio ==
    (Calculated /\ Feasible(bakery)) =>
        (result.kind = "reply" /\ IsMinRatio(result.cookies, bakery))

(* C2: when some ingredient of the recipe is missing from the pantry or    *)
(* short, the reply is cookies = 0 with the original pantry, whatever the  *)
(* other ingredients and the order of the visit.                           *)
C2_InfeasibleReturnsOriginalPantry ==
    (Calculated /\ ~Feasible(bakery)) => result = BakeReply(0, bakery.pantry)

(* C3: a reply with c > 0 cookies carries a pantry whose keys are exactly  *)
(* the recipe's, each at P[i] - R[i] * c.                                  *)
C3_ResidualOverRecipeKeys ==
    (Calculated /\ result.kind = "reply" /\ result.cookies > 0) =>
        /\ DOMAIN result.pantry = DOMAIN bakery.recipe
        /\ \A i \in DOMAIN bakery.recipe :
              result.pantry[i] = bakery.pantry[i] - bakery.recipe[i] * result.cookies

C3_Witness ==
    /\ Calculated /\ result.kind = "reply" /\ result.cookies > 1
    /\ DOMAIN bakery.pantry \ DOMAIN bakery.recipe # {}
    /\ \E i \in DOMAIN bakery.recipe : result.pantry[i] > 0
    /\ response = OkJsonReply(result)

(* C4: calculate_cookies is total: it returns a BakeReply for every recipe *)
(* and pantry, a requirement of 0 included, which bounds nothing.          *)
C4_Total ==
    Calculated =>
        /\ result.kind = "reply"
        /\ (Feasible(bakery) /\ \E i \in DOMAIN bakery.recipe : bakery.recipe[i] = 0) =>
              IsMinRatio(result.cookies, bakery)

(* C5: /7/decode answers 200 with the parsed document when decoding        *)
(* succeeds and 400 on every decode or schema failure, never 500.          *)
C5_DecodeAnswers200Or400 ==
    (endpoint = "decode" /\ pc = "done" /\ request.present) =>
        IF CarriesDocument(request) /\ SchemaOk(DocumentOf(request))
        THEN response = OkJsonDocument(DocumentOf(request))
        ELSE response.status = 400

(* C6: /7/bake runs its stages in order; a failure of a stage before       *)
(* calculate_cookies gives 400 with an empty body, without calling         *)
(* calculate_cookies and without a partial result; 200 with a BakeReply    *)
(* comes only after every earlier stage has succeeded.                     *)
StageOrder == <<"cookie", "split_once", "base64", "json", "schema", "calculate">>

C6_BakeStagesInOrder ==
    endpoint = "bake" =>
        /\ Len(trace) <= Len(StageOrder)
        /\ \A i \in DOMAIN trace : trace[i] = StageOrder[i]
        /\ ~(CarriesDocument(request) /\ SchemaOk(DocumentOf(request))) =>
              /\ calc_calls = 0
              /\ result = NoReply
              /\ bakery = BakeryDefault
              /\ response \in {NoResponse, BadRequestFinish}
              /\ pc = "done" => response = BadRequestFinish
        /\ response.status = 200 =>
              /\ CarriesDocument(request) /\ SchemaOk(DocumentOf(request))
              /\ trace = StageOrder
              /\ calc_calls = 1
              /\ result.kind = "reply"
              /\ response = OkJsonReply(result)

C6_Witness ==
    /\ endpoint = "bake" /\ pc = "done"
    /\ CarriesDocument(request) /\ ~SchemaOk(DocumentOf(request))
    /\ DocumentOf(request).recipe.f = "object"
    /\ response = BadRequestFinish

(* C7: the outcome of calculate_cookies is a function of the two maps: no  *)
(* other iteration order (or build) gives another outcome.                 *)
C7_SameInputsSameOutcome ==
    Calculated =>
        \A order \in Orders(bakery.recipe), checks \in BOOLEAN :
            calculate_cookies(bakery, order, checks) = result

(* C8: with an empty recipe the reply is cookies = 0 and an empty pantry,  *)
(* whatever the pantry holds.                                              *)
C8_EmptyRecipe ==
    (Calculated /\ DOMAIN bakery.recipe = {}) => result = BakeReply(0, EmptyMap)

C8_Witness ==
    /\ Calculated /\ DOMAIN bakery.recipe = {} /\ DOMAIN bakery.pantry = Ingredients
    /\ \A i \in Ingredients : bakery.pantry[i] > 0
    /\ response = OkJsonReply(result)

(* C9: split_recipe_from_pantry fails exactly when recipe or pantry is     *)
(* absent or no object; otherwise every key maps to its value when that is *)
(* a non-negative integer and to 0 when it is anything else.               *)
NonNegativeIntegerOrZero(v) == IF v.t = "int" /\ v.n >= 0 THEN v.n ELSE 0

C9_SplitCoercesNonNegativeIntegers ==
    SplitRan =>
        /\ SplitFailed <=> ~SchemaOk(hdr.value)
        /\ SplitSucceeded =>
              /\ bakery.recipe =
                    [k \in DOMAIN hdr.value.recipe.m |->
                        NonNegativeIntegerOrZero(hdr.value.recipe.m[k])]
              /\ bakery.pantry =
                    [k \in DOMAIN hdr.value.pantry.m |->
                        NonNegativeIntegerOrZero(hdr.value.pantry.m[k])]

(* C9, amended: as above, but a key maps to its value only when the value  *)
(* is an integer of 0..u64::MAX; an integer above u64::MAX maps to 0 like  *)
(* every other value.                                                      *)
U64OrZero(v) == IF v.t = "int" /\ v.n >= 0 /\ v.n <= MaxU64 THEN v.n ELSE 0

C9_SplitCoercesU64 ==
    SplitRan =>
        /\ SplitFailed <=> ~SchemaOk(hdr.value)
        /\ SplitFailed => response = BadRequestFinish
        /\ SplitSucceeded =>
              /\ bakery.recipe =
                    [k \in DOMAIN hdr.value.recipe.m |-> U64OrZero(hdr.value.recipe.m[k])]
              /\ bakery.pantry =
                    [k \in DOMAIN hdr.value.pantry.m |-> U64OrZero(hdr.value.pantry.m[k])]

C9_Witness ==
    /\ SplitSucceeded
    /\ hdr.value.recipe.m = [flour |-> JInt(MaxU64 + 1), sugar |-> JOther("null")]
    /\ hdr.value.pantry.m = [flour |-> JOther("string"), sugar |-> JInt(MaxU64)]
    /\ bakery = Bakery([flour |-> 0, sugar |-> 0], [flour |-> 0, sugar |-> MaxU64])

(* C10: on the success path (every recipe ingredient in the pantry with    *)
(* P[i] >= R[i] > 0) R[i] * c never exceeds P[i], every residual lies in   *)
(* 0..P[i], and c is maximal: some recipe ingredient has a residual below  *)
(* its requirement.                                                        *)
SuccessPath(b) ==
    \A i \in DOMAIN b.recipe :
        i \in DOMAIN b.pantry /\ b.pantry[i] >= b.recipe[i] /\ b.recipe[i] > 0

NoOverflow ==
    /\ result.kind = "reply"
    /\ DOMAIN result.pantry = DOMAIN bakery.recipe
    /\ \A i \in DOMAIN bakery.recipe :
          /\ bakery.recipe[i] * result.cookies <= bakery.pantry[i]
          /\ result.pantry[i] = bakery.pantry[i] - bakery.recipe[i] * result.cookies
          /\ result.pantry[i] >= 0 /\ result.pantry[i] <= bakery.pantry[i]

Maximal ==
    \E i \in DOMAIN bakery.recipe : result.pantry[i] < bakery.recipe[i]

C10_NoOverflowAndMaximal ==
    (Calculated /\ SuccessPath(bakery)) => (NoOverflow /\ Maximal)

(* C10, amended: as above, but c is maximal only when the recipe names an  *)
(* ingredient; with an empty recipe c is 0 and no ingredient bounds it.    *)
C10_NoOverflowAndMaximalUnlessEmpty ==
    (Calculated /\ SuccessPath(bakery)) =>
        /\ NoOverflow
        /\ DOMAIN bakery.recipe # {} => Maximal

C10_Witness ==
    /\ Calculated /\ SuccessPath(bakery)
    /\ bakery = Bakery([flour |-> 2, sugar |-> 1], [flour |-> MaxU64, sugar |-> MaxU64])
    /\ result.cookies = MaxU64 \div 2
    /\ response = OkJsonReply(result)

====
